---- MODULE Spec2Model ----
(***************************************************************************)
(* Model of the Linn file system server (srv/filesystem/linn):            *)
(* the mount performed by the constructor, the inode loader and its       *)
(* cache, the block address translation and the path resolver with the    *)
(* file cache tree.                                                       *)
(*                                                                        *)
(* Storage is an input: a disk image drawn at Init, and the outcome of    *)
(* every single storage read (bytes read, zero bytes, error) is chosen    *)
(* by the environment.  Every operation is one action and leaves in       *)
(* `last' what it returned and which storage reads it issued.             *)
(***************************************************************************)
EXTENDS Integers, Sequences, FiniteSets, TLC

VARIABLES
    pc,         \* "boot", "mounted", "exited" (exit(EXIT_FAILURE)), "crashed"
    disk,       \* the storage contents (never written by the server)
    super,      \* LinnFileSystem::super, as read at mount
    groups,     \* LinnFileSystem::groups, sequence of group descriptors
    inodes,     \* LinnFileSystem::inodes, inode number -> cached LinnInode
    root,       \* the FileCache tree under LinnFileSystem::root, path -> node
    nodeAllocs, \* number of FileCache nodes created so far
    failures,   \* number of storage reads that did not succeed so far
    mountReads, \* the storage reads the constructor issued
    last,       \* the last operation: what it returned and what it read
    succeeded,  \* history: path -> the node a successful lookupFile returned
    processed,  \* history: path prefixes some lookupFile has read from storage
    failedIno   \* history: inode numbers whose read in getInode has failed

vars == <<pc, disk, super, groups, inodes, root, nodeAllocs,
          failures, mountReads, last, succeeded, processed, failedIno>>

(***************************************************************************)
(* Bounds of the model.                                                    *)
(***************************************************************************)
MaxFail == 1        \* storage reads that may fail in one behaviour
MaxPathLen == 3     \* components of a looked-up path
MaxNumPtrs == 2     \* largest pointers-per-block among the disk images

(***************************************************************************)
(* Constants of the on-disk format.  Their headers (LinnSuperBlock.h,     *)
(* LinnInode.h, LinnGroup.h) are not part of the sources at hand.         *)
(***************************************************************************)
LINN_SUPER_OFFSET == 1024
LINN_SUPER_MAGIC0 == 19529
LINN_SUPER_MAGIC1 == 18003
LINN_INODE_ROOT == 1
LINN_INODE_DIR_BLOCKS == 4
PointerSize == 4
LinnGroupSize == 32
LinnInodeSize == 64

ZERO == 0           \* the null pointer
U64 == 1073741824   \* modulus of the unsigned arithmetic carried by the model

DirectoryFile == "DirectoryFile"
RegularFile == "RegularFile"
OtherFile == "OtherFile"

Names == {"a", "b"}
Outcomes == {"ok", "zero", "err"}

RECURSIVE Pow(_, _)
Pow(b, e) == IF e = 0 THEN 1 ELSE b * Pow(b, e - 1)

(***************************************************************************)
(* The disk images.                                                        *)
(***************************************************************************)
BlocksCount == 7    \* block pointers of an image lie in 0 .. BlocksCount-1

SuperBlocks ==
    { [magic0 |-> m[1], magic1 |-> m[2], blockSize |-> PointerSize * k,
       inodesCount |-> 5, inodesPerGroup |-> 2, groupsTable |-> 7]
      : m \in { <<LINN_SUPER_MAGIC0, LINN_SUPER_MAGIC1>>,
                <<LINN_SUPER_MAGIC0, 0>>, <<0, LINN_SUPER_MAGIC1>> },
        k \in 2..MaxNumPtrs }

DiskImages == [sb : SuperBlocks]

\* the images of the smallest block size
SmallImages == { d \in DiskImages : d.sb.blockSize = 2 * PointerSize }

\* block pointer stored in slot i of block b
PtrAt(d, b, i) == (3 * b + i) % BlocksCount

\* the inode records of the image
InodeType(ino) ==
    CASE ino \in {1, 2} -> DirectoryFile
      [] ino = 3        -> RegularFile
      [] OTHER          -> OtherFile

InodeRecord(d, ino) ==
    [num   |-> ino,
     type  |-> InodeType(ino),
     block |-> [i \in 0..(LINN_INODE_DIR_BLOCKS + 2) |->
                   (2 * ino + i) % BlocksCount]]

\* the directory entries of the image: inode number of `name', 0 - 1 if absent
Absent == 0 - 1
DirContent(dirIno, name) ==
    CASE dirIno = 1 /\ name = "a" -> 2
      [] dirIno = 1 /\ name = "b" -> 4
      [] dirIno = 2 /\ name = "a" -> 3
      [] OTHER                    -> Absent

\* block holding the inode table of group g
InodeTableOf(g) == 8 + g

(***************************************************************************)
(* Storage::read: what a successful read at a byte offset delivers.       *)
(***************************************************************************)
\* the superblock at LINN_SUPER_OFFSET
ReadSuper(d, offset) == d.sb

\* a group descriptor
ReadGroup(d, offset) ==
    [inodeTable |->
        InodeTableOf((offset - d.sb.groupsTable * d.sb.blockSize) \div LinnGroupSize)]

\* an inode record: slot (offset % blockSize) of the table in block
\* (offset / blockSize), as getInode addresses it
ReadInode(d, offset) ==
    LET g   == (offset \div d.sb.blockSize) - InodeTableOf(0)
        idx == offset % d.sb.blockSize
        cand == { n \in 1..(d.sb.inodesCount - 1) :
                     /\ n % d.sb.inodesPerGroup = idx
                     /\ (n - 1) \div d.sb.inodesPerGroup = g }
    IN IF cand = {} THEN [num |-> Absent, type |-> OtherFile,
                          block |-> [i \in 0..(LINN_INODE_DIR_BLOCKS + 2) |-> 0]]
       ELSE InodeRecord(d, CHOOSE n \in cand : TRUE)

\* a block of pointers
ReadBlock(d, offset) ==
    [i \in 0..((d.sb.blockSize \div PointerSize) - 1) |->
        PtrAt(d, (offset \div d.sb.blockSize) % BlocksCount, i)]

Read(kind, at, name, res) == [kind |-> kind, at |-> at, name |-> name, res |-> res]

(***************************************************************************)
(* What the environment decides for one operation: the outcome of each of *)
(* its storage reads in turn, and what an access with undefined behaviour *)
(* (out of bounds, null, uninitialised) produces: a crash, a null or a    *)
(* stray value.                                                           *)
(***************************************************************************)
JunkVals == {0, BlocksCount - 2}
UBs == [how : {"null", "junk", "crash"}, val : JunkVals]
NoUB == [how |-> "null", val |-> 0]

\* at most one of len reads does not succeed, in one of the ways `kinds'
OneFail(len, kinds) ==
    { [i \in 1..len |-> IF i = f THEN kd ELSE "ok"] :
        f \in 0..len, kd \in kinds }

Failing == {"zero", "err"}

ReadOutcome(sched, k) == sched[k]

NotOk(reads) == Cardinality({ i \in 1..Len(reads) : reads[i].res # "ok" })

\* every failure the schedule holds was met by a read the operation issued
Consumed(sched, reads) ==
    \A i \in DOMAIN sched : sched[i] # "ok" => i <= Len(reads)

(***************************************************************************)
(* LinnFileSystem::getInode and the group lookup.                         *)
(***************************************************************************)
LINN_GROUP_COUNT(sb) ==
    (sb.inodesCount + sb.inodesPerGroup - 1) \div sb.inodesPerGroup

NoGroup == [inodeTable |-> 0 - 1]

\* (*groups)[groupNum]; an index past the array is undefined behaviour
getGroup(grps, groupNum, ub) ==
    IF groupNum < Len(grps) THEN grps[groupNum + 1]
    ELSE IF ub.how = "junk" THEN [inodeTable |-> ub.val]
    ELSE NoGroup

GroupIndex(sb, inodeNum) == ((inodeNum - 1) % U64) \div sb.inodesPerGroup

getGroupByInode(sb, grps, inodeNum, ub) ==
    getGroup(grps, GroupIndex(sb, inodeNum), ub)

InodeValidAlways(sb, inodeNum) == TRUE

InodeValid(sb, inodeNum) == inodeNum < sb.inodesCount

InodeCachedNever(cache, inodeNum) == FALSE

InodeCached(cache, inodeNum) == inodeNum \in DOMAIN cache

InodeOffset(sb, group, inodeNum) ==
    (group.inodeTable * sb.blockSize) + (inodeNum % sb.inodesPerGroup)

InodeReadFailedOnError(res) == res = "err"

InodeReadFailedNever(res) == FALSE

\* e <= 0 after storage->read
InodeReadFailed(res) == res # "ok"

InodeInsert(cache, inodeNum, obj) ==
    [n \in DOMAIN cache \cup {inodeNum} |->
        IF n = inodeNum THEN obj ELSE cache[n]]

\* the address `new LinnInode' returns: fresh, since a second allocation for
\* one inode number only follows a read that failed
NewInode(inodeNum, nfail) == 1 + inodeNum + 16 * nfail

\* cx: [disk, super, groups, sched, ub]; k: reads the operation issued before;
\* nfail: reads that failed before.  ret is the object returned (its address)
\* or ZERO.
getInode(cx, cache, nfail, k, inodeNum) ==
    LET none == [inodes |-> cache, ret |-> ZERO, reads |-> <<>>,
                 allocs |-> 0, crash |-> FALSE]
    IN IF ~InodeValid(cx.super, inodeNum) THEN none
       ELSE IF InodeCached(cache, inodeNum)
       THEN [none EXCEPT !.ret = cache[inodeNum].id]
       ELSE IF GroupIndex(cx.super, inodeNum) >= Len(cx.groups) /\ cx.ub.how = "crash"
       THEN [none EXCEPT !.crash = TRUE]
       ELSE LET group == getGroupByInode(cx.super, cx.groups, inodeNum, cx.ub)
            IN IF group = NoGroup THEN none
               ELSE LET offset == InodeOffset(cx.super, group, inodeNum)
                        res    == ReadOutcome(cx.sched, k + 1)
                        rd     == <<Read("inode", offset, "", res)>>
                        rec    == ReadInode(cx.disk, offset)
                        obj    == [id |-> NewInode(inodeNum, nfail), num |-> rec.num,
                                   type |-> rec.type, block |-> rec.block]
                    IN IF InodeReadFailed(res)
                       THEN [none EXCEPT !.reads = rd, !.allocs = 1]
                       ELSE [inodes |-> InodeInsert(cache, inodeNum, obj),
                             ret |-> obj.id, reads |-> rd, allocs |-> 1,
                             crash |-> FALSE]

\* the cached inode behind a pointer
Deref(cache, id) == cache[CHOOSE n \in DOMAIN cache : cache[n].id = id]

(***************************************************************************)
(* The record an operation leaves in `last'.                              *)
(***************************************************************************)
Op(name) ==
    [op |-> name, path |-> <<>>, ino |-> 0, blk |-> 0, ret |-> ZERO,
     reads |-> <<>>, allocs |-> 0, nodes |-> 0, failAt |-> 0,
     touched |-> {}, idxs |-> <<>>, crash |-> FALSE]

NoSuper ==
    [magic0 |-> 0, magic1 |-> 0, blockSize |-> 0, inodesCount |-> 0,
     inodesPerGroup |-> 0, groupsTable |-> 0]

Paths == UNION { [1..n -> Names] : n \in 0..MaxPathLen }

slash == <<>>

Init ==
    /\ pc = "boot"
    /\ disk \in SmallImages
    /\ super = NoSuper
    /\ groups = <<>>
    /\ inodes = <<>>
    /\ root = <<>>
    /\ nodeAllocs = 0
    /\ failures = 0
    /\ mountReads = <<>>
    /\ last = Op("none")
    /\ succeeded = <<>>
    /\ processed = {}
    /\ failedIno = {}

(***************************************************************************)
(* LinnFileSystem::LinnFileSystem: the mount.                             *)
(***************************************************************************)
\* e <= 0 after s->read
MountReadFailed(res) == res # "ok"

MagicOkAlways(sb) == TRUE

MagicOk(sb) ==
    sb.magic0 = LINN_SUPER_MAGIC0 /\ sb.magic1 = LINN_SUPER_MAGIC1

GroupOffset(sb, i) == (sb.groupsTable * sb.blockSize) + (LinnGroupSize * i)

\* the state the constructor ends in, exit(EXIT_FAILURE) included
Constructor(d, sched, ub) ==
    LET res1   == ReadOutcome(sched, 1)
        rd1    == <<Read("super", LINN_SUPER_OFFSET, "", res1)>>
        sb     == ReadSuper(d, LINN_SUPER_OFFSET)
        cnt    == LINN_GROUP_COUNT(sb)
        bad    == { i \in 0..(cnt - 1) : MountReadFailed(ReadOutcome(sched, i + 2)) }
        \* group reads issued: up to and including the first that fails
        ngrp   == IF bad = {} THEN cnt
                  ELSE 1 + (CHOOSE i \in bad : \A j \in bad : i <= j)
        rdg    == [i \in 1..ngrp |->
                      Read("group", GroupOffset(sb, i - 1), "",
                           ReadOutcome(sched, i + 1))]
        grps   == [i \in 1..cnt |-> ReadGroup(d, GroupOffset(sb, i - 1))]
        loaded == IF bad = {} THEN grps ELSE SubSeq(grps, 1, ngrp - 1)
        gi     == getInode([disk |-> d, super |-> sb, groups |-> grps,
                            sched |-> sched, ub |-> ub],
                           <<>>, 0, cnt + 1, LINN_INODE_ROOT)
        stop   == [pc |-> "exited", super |-> NoSuper, groups |-> <<>>,
                   inodes |-> <<>>, root |-> <<>>, allocs |-> 0, nodes |-> 0,
                   reads |-> rd1]
    IN IF MountReadFailed(res1) THEN stop
       ELSE IF ~MagicOk(sb) THEN [stop EXCEPT !.super = sb]
       ELSE IF bad # {}
       THEN [stop EXCEPT !.super = sb, !.groups = loaded, !.reads = rd1 \o rdg]
       ELSE IF gi.crash
       THEN [stop EXCEPT !.pc = "crashed", !.super = sb, !.groups = grps,
                         !.reads = rd1 \o rdg]
       ELSE [pc |-> "mounted",
             super |-> sb, groups |-> grps, inodes |-> gi.inodes,
             root |-> (slash :> [id |-> 1, type |-> DirectoryFile,
                                 inode |-> gi.ret]),
             allocs |-> gi.allocs, nodes |-> 1,
             reads |-> rd1 \o rdg \o gi.reads]

\* the schedules the failures still allowed admit
Budget(scheds) ==
    { s \in scheds :
        Cardinality({ i \in DOMAIN s : s[i] # "ok" }) <= MaxFail - failures }

MountReads == LINN_GROUP_COUNT(disk.sb) + 2

Mount ==
    /\ pc = "boot"
    /\ \E sched \in Budget(OneFail(MountReads, Failing)), ub \in {NoUB} :
         LET m == Constructor(disk, sched, ub)
         IN /\ Consumed(sched, m.reads)
            /\ failures + NotOk(m.reads) <= MaxFail
            /\ pc' = m.pc
            /\ super' = m.super
            /\ groups' = m.groups
            /\ inodes' = m.inodes
            /\ root' = m.root
            /\ nodeAllocs' = m.nodes
            /\ failures' = failures + NotOk(m.reads)
            /\ mountReads' = m.reads
            /\ last' = [Op("mount") EXCEPT !.reads = m.reads, !.allocs = m.allocs,
                                           !.nodes = m.nodes]
    /\ UNCHANGED <<disk, succeeded, processed, failedIno>>

Cx(sched, ub) ==
    [disk |-> disk, super |-> super, groups |-> groups, sched |-> sched, ub |-> ub]

\* the undefined group access of getInode is met by this call
GroupUB(inodeNum) ==
    /\ InodeValid(super, inodeNum)
    /\ ~InodeCached(inodes, inodeNum)
    /\ GroupIndex(super, inodeNum) >= Len(groups)

AllInodes == 0..(super.inodesCount + 1)
SomeInodes == {LINN_INODE_ROOT + 1}

\* getInode called for an inode number among nums
GetInode(nums) ==
    /\ pc = "mounted"
    /\ \E inodeNum \in nums :
       \E sched \in Budget(OneFail(1, Failing)) :
       \E ub \in IF GroupUB(inodeNum) THEN UBs ELSE {NoUB} :
         LET r == getInode(Cx(sched, ub), inodes, failures, 0, inodeNum)
         IN /\ Consumed(sched, r.reads)
            /\ failures + NotOk(r.reads) <= MaxFail
            /\ pc' = IF r.crash THEN "crashed" ELSE pc
            /\ inodes' = r.inodes
            /\ failures' = failures + NotOk(r.reads)
            /\ failedIno' = IF NotOk(r.reads) > 0 THEN failedIno \cup {inodeNum}
                            ELSE failedIno
            /\ last' = [Op("getInode") EXCEPT !.ino = inodeNum, !.ret = r.ret,
                           !.reads = r.reads, !.allocs = r.allocs,
                           !.crash = r.crash]
    /\ UNCHANGED <<disk, super, groups, root, nodeAllocs, mountReads,
                   succeeded, processed>>

(***************************************************************************)
(* LinnFileSystem::createFile.                                            *)
(***************************************************************************)
ENOTSUP == 0 - 95

createFileDone(path) == 0

createFile(path) == ENOTSUP

CreateFile ==
    /\ pc = "mounted"
    /\ \E path \in Paths :
         last' = [Op("createFile") EXCEPT !.path = path, !.ret = createFile(path)]
    /\ UNCHANGED <<pc, disk, super, groups, inodes, root,
                   nodeAllocs, failures, mountReads, succeeded, processed,
                   failedIno>>

(***************************************************************************)
(* LinnFileSystem::getOffset.                                             *)
(***************************************************************************)
LINN_SUPER_NUM_PTRS(sb) == sb.blockSize \div PointerSize

DirectOffsetUnscaled(sb, inode, blk) == inode.block[blk]

DirectOffset(sb, inode, blk) == inode.block[blk] * sb.blockSize

Depth(sb, blk) ==
    LET numPerBlock == LINN_SUPER_NUM_PTRS(sb)
    IN IF blk - LINN_INODE_DIR_BLOCKS < numPerBlock THEN 1
       ELSE IF blk - LINN_INODE_DIR_BLOCKS < numPerBlock * numPerBlock THEN 2
       ELSE 3

\* for (i = 0; i < depth - 1; i++) remain *= remain
RECURSIVE Squared(_, _)
Squared(remain, times) ==
    IF times = 0 THEN remain ELSE Squared(remain * remain, times - 1)

Remain(sb, depth) == Squared(LINN_SUPER_NUM_PTRS(sb), depth - 1)

LoopIndex(sb, blk, depth) ==
    Remain(sb, depth) \div (blk - LINN_INODE_DIR_BLOCKS + 1)

FinalIndex(sb, blk) ==
    (blk - LINN_INODE_DIR_BLOCKS) % LINN_SUPER_NUM_PTRS(sb)

BlockReadFailedNever(res) == FALSE

\* storage->read(...) < 0
BlockReadFailed(res) == res = "err"

\* the while loop and the final offset; block is the temporary block, idxs the
\* indices it was read at
RECURSIVE Translate(_, _, _, _, _, _, _)
Translate(cx, blk, depth, offset, block, reads, idxs) ==
    IF depth = 0
    THEN LET idx == FinalIndex(cx.super, blk)
         IN [ret |-> block[idx] * cx.super.blockSize, reads |-> reads,
             idxs |-> Append(idxs, idx), crash |-> FALSE]
    ELSE LET res    == ReadOutcome(cx.sched, Len(reads) + 1)
             reads2 == Append(reads, Read("block", offset, "", res))
             buf    == IF res = "ok" THEN ReadBlock(cx.disk, offset) ELSE block
             idx    == LoopIndex(cx.super, blk, depth)
             next   == IF idx \in DOMAIN buf THEN buf[idx] ELSE cx.ub.val
         IN IF BlockReadFailed(res)
            THEN [ret |-> 0, reads |-> reads2, idxs |-> idxs, crash |-> FALSE]
            ELSE IF idx \notin DOMAIN buf /\ cx.ub.how = "crash"
            THEN [ret |-> 0, reads |-> reads2, idxs |-> Append(idxs, idx),
                  crash |-> TRUE]
            ELSE Translate(cx, blk, depth - 1, next * cx.super.blockSize, buf,
                           reads2, Append(idxs, idx))

getOffset(cx, inode, blk) ==
    IF blk < LINN_INODE_DIR_BLOCKS
    THEN [ret |-> DirectOffset(cx.super, inode, blk), reads |-> <<>>,
          idxs |-> <<>>, crash |-> FALSE]
    ELSE LET depth == Depth(cx.super, blk)
             \* new u64[...]: the block starts out uninitialised
             block == [i \in 0..(LINN_SUPER_NUM_PTRS(cx.super) - 1) |-> cx.ub.val]
             offset == inode.block[LINN_INODE_DIR_BLOCKS + depth - 1]
         IN Translate(cx, blk, depth, offset * cx.super.blockSize, block,
                      <<>>, <<>>)

\* the logical blocks the model translates: the direct range, the single and
\* double indirect ranges and the start of the triple indirect range
MaxBlk(sb) ==
    LET n == LINN_SUPER_NUM_PTRS(sb)
    IN LINN_INODE_DIR_BLOCKS + n + n * n + n

Schedules(blk) ==
    IF blk < LINN_INODE_DIR_BLOCKS THEN {<<>>}
    ELSE Budget([1..Depth(super, blk) -> Outcomes])

\* an access of this call is undefined: an index past the temporary block, or
\* a block left uninitialised by a read that delivered nothing
OffsetUB(blk, sched) ==
    /\ blk >= LINN_INODE_DIR_BLOCKS
    /\ \/ sched[1] = "zero"
       \/ \E dp \in 1..Depth(super, blk) :
            LoopIndex(super, blk, dp) >= LINN_SUPER_NUM_PTRS(super)

AllBlks == 0..MaxBlk(super)
SomeBlks == {0, LINN_INODE_DIR_BLOCKS}

\* getOffset called for a cached inode and a logical block among blks
GetOffset(blks) ==
    /\ pc = "mounted"
    /\ \E n \in DOMAIN inodes, blk \in blks :
       \E sched \in Schedules(blk) :
       \E ub \in IF OffsetUB(blk, sched) THEN UBs ELSE {NoUB} :
         LET r == getOffset(Cx(sched, ub), inodes[n], blk)
         IN /\ Consumed(sched, r.reads)
            /\ pc' = IF r.crash THEN "crashed" ELSE pc
            /\ failures' = failures + NotOk(r.reads)
            /\ last' = [Op("getOffset") EXCEPT !.ino = n, !.blk = blk,
                           !.ret = r.ret, !.reads = r.reads, !.idxs = r.idxs,
                           !.crash = r.crash]
    /\ UNCHANGED <<disk, super, groups, inodes, root, nodeAllocs,
                   mountReads, succeeded, processed, failedIno>>

(***************************************************************************)
(* LinnFileSystem::lookupFile, with the parts of the file cache it uses.  *)
(***************************************************************************)
ESUCCESS == 0
ENOENT == 0 - 2
EIO == 0 - 5

HasEntryNever(tree, cur, name) == FALSE

\* c->entries[name]
HasEntry(tree, cur, name) == Append(cur, name) \in DOMAIN tree

DescendStays(cur, name) == cur

\* c = c->entries[i.current()]
Descend(cur, name) == Append(cur, name)

NotDirectoryNever(node) == FALSE

\* c->file->getType() != DirectoryFile
NotDirectory(node) == node.type # DirectoryFile

CreatedStays(cur, name) == cur

\* c = insertFileCache(..., name): the new node becomes the current one
Created(cur, name) == Append(cur, name)

ReturnedNull(tree, c) == ZERO

\* return c
Returned(tree, c) == tree[c].id

\* LinnDirectory::getEntry: one read of the directory's content for `name';
\* a directory without an inode is dereferenced all the same
getEntry(cx, cache, dirInode, name, k) ==
    IF dirInode = ZERO
    THEN [err |-> IF cx.ub.how = "junk" THEN ESUCCESS ELSE ENOENT,
          inode |-> cx.ub.val, reads |-> <<>>, crash |-> cx.ub.how = "crash"]
    ELSE LET dir == Deref(cache, dirInode)
             res == ReadOutcome(cx.sched, k + 1)
             ino == DirContent(dir.num, name)
         IN [err |-> IF res # "ok" THEN EIO
                     ELSE IF ino = Absent THEN ENOENT ELSE ESUCCESS,
             inode |-> ino,
             reads |-> <<Read("dirent", dir.num, name, res)>>,
             crash |-> FALSE]

\* the in-memory file lookupFile creates for an inode type: none for the
\* default case of the switch
FileFor(type) ==
    CASE type = DirectoryFile -> DirectoryFile
      [] type = RegularFile   -> RegularFile
      [] OTHER                -> "none"

\* FileSystem::insertFileCache: the new node becomes the child `name' of the
\* current node
insertFileCache(tree, cur, name, node) ==
    [p \in DOMAIN tree \cup {Append(cur, name)} |->
        IF p = Append(cur, name) THEN node ELSE tree[p]]

\* st: [inodes, root, nodes, c, reads, allocs, touched, ret, failAt, crash];
\* the loop over the path from its component i on
RECURSIVE lookupFrom(_, _, _, _)
lookupFrom(cx, st, path, i) ==
    IF i > Len(path) THEN [st EXCEPT !.ret = Returned(st.root, st.c)]
    ELSE
    LET name  == path[i]
        child == Append(st.c, name)
        fail  == [st EXCEPT !.ret = ZERO, !.failAt = i]
    IN IF HasEntry(st.root, st.c, name)
       THEN lookupFrom(cx, [st EXCEPT !.c = Descend(st.c, name)], path, i + 1)
       ELSE IF NotDirectory(st.root[st.c]) THEN fail
       ELSE
       LET ge == getEntry(cx, st.inodes, st.root[st.c].inode, name, Len(st.reads))
           s1 == [fail EXCEPT !.reads = @ \o ge.reads,
                     !.touched = IF ge.reads = <<>> THEN @ ELSE @ \cup {child}]
       IN IF ge.crash THEN [s1 EXCEPT !.crash = TRUE]
          ELSE IF ge.err # ESUCCESS THEN s1
          ELSE
          LET gi == getInode(cx, st.inodes, cx.nfail, Len(s1.reads), ge.inode)
              s2 == [s1 EXCEPT !.reads = @ \o gi.reads,
                        !.allocs = @ + gi.allocs,
                        !.inodes = gi.inodes,
                        !.touched = IF gi.reads = <<>> THEN @ ELSE @ \cup {child}]
          IN IF gi.crash THEN [s2 EXCEPT !.crash = TRUE]
             ELSE IF gi.ret = ZERO THEN s2
             ELSE
             LET inode == Deref(gi.inodes, gi.ret)
                 node  == [id |-> st.nodes + 1, type |-> FileFor(inode.type),
                           inode |-> gi.ret]
             IN IF FileFor(inode.type) = "none" THEN s2
                ELSE lookupFrom(cx,
                        [s2 EXCEPT !.root = insertFileCache(st.root, st.c, name, node),
                                   !.nodes = @ + 1, !.c = Created(st.c, name),
                                   !.ret = ZERO, !.failAt = 0],
                        path, i + 1)

lookupFile(cx, cache, tree, nnodes, path) ==
    lookupFrom(cx,
               [inodes |-> cache, root |-> tree, nodes |-> nnodes, c |-> slash,
                reads |-> <<>>, allocs |-> 0, touched |-> {}, ret |-> ZERO,
                failAt |-> 0, crash |-> FALSE],
               path, 1)

\* the storage reads lookupFile issues for `path' when each of them succeeds
ReadsOf(path, ub) ==
    Len(lookupFile(Cx([i \in 1..(2 * Len(path)) |-> "ok"], ub) @@ [nfail |-> failures],
                   inodes, root, nodeAllocs, path).reads)

LookupFile ==
    /\ pc = "mounted"
    /\ \E path \in Paths :
       \E ub \in IF root[slash].inode = ZERO /\ path # slash THEN UBs ELSE {NoUB} :
       \E sched \in Budget(OneFail(ReadsOf(path, ub), {"err"})) :
         LET r == lookupFile(Cx(sched, ub) @@ [nfail |-> failures],
                             inodes, root, nodeAllocs, path)
         IN /\ failures + NotOk(r.reads) <= MaxFail
            /\ pc' = IF r.crash THEN "crashed" ELSE pc
            /\ inodes' = r.inodes
            /\ root' = r.root
            /\ nodeAllocs' = r.nodes
            /\ failures' = failures + NotOk(r.reads)
            /\ processed' = processed \cup r.touched
            /\ succeeded' = IF r.ret # ZERO /\ path # slash /\ path \notin DOMAIN succeeded
                            THEN succeeded @@ (path :> r.ret) ELSE succeeded
            /\ last' = [Op("lookupFile") EXCEPT !.path = path, !.ret = r.ret,
                           !.reads = r.reads, !.allocs = r.allocs,
                           !.nodes = r.nodes - nodeAllocs, !.failAt = r.failAt,
                           !.touched = r.touched, !.crash = r.crash]
    /\ UNCHANGED <<disk, super, groups, mountReads, failedIno>>

Next ==
    \/ Mount
    \/ GetInode(AllInodes)
    \/ GetOffset(AllBlks)
    \/ LookupFile
    \/ CreateFile

Spec == Init /\ [][Next]_vars

(***************************************************************************)
(* The inode loader: the mount and getInode for every inode number.       *)
(***************************************************************************)
NextInode ==
    \/ Mount
    \/ GetInode(AllInodes)

SpecInode == Init /\ [][NextInode]_vars

(***************************************************************************)
(* The path resolver: the mount, lookupFile for every path, and the other *)
(* operations interleaved with it.                                        *)
(***************************************************************************)
NextLookup ==
    \/ Mount
    \/ LookupFile
    \/ GetInode(SomeInodes)

SpecLookup == Init /\ [][NextLookup]_vars

(***************************************************************************)
(* The block address translator on its own: the volume is mounted, the    *)
(* inodes 1 to 4 are loaded, and getOffset is called for every loaded     *)
(* inode and every logical block, under every outcome of its reads.       *)
(***************************************************************************)
AllOk(len) == [i \in 1..len |-> "ok"]

GoodImages == { d \in DiskImages : MagicOk(d.sb) }

\* the inode cache after getInode(2), getInode(3), getInode(4) on a fresh mount
LoadedInodes(d, m) ==
    LET cx == [disk |-> d, super |-> m.super, groups |-> m.groups,
               sched |-> AllOk(1), ub |-> NoUB]
        c2 == getInode(cx, m.inodes, 0, 0, 2).inodes
        c3 == getInode(cx, c2, 0, 0, 3).inodes
    IN getInode(cx, c3, 0, 0, 4)

InitOffset ==
    /\ pc = "mounted"
    /\ disk \in GoodImages
    /\ LET m == Constructor(disk, AllOk(LINN_GROUP_COUNT(disk.sb) + 2), NoUB)
           g == LoadedInodes(disk, m)
       IN /\ super = m.super
          /\ groups = m.groups
          /\ inodes = g.inodes
          /\ root = m.root
          /\ nodeAllocs = m.nodes
          /\ mountReads = m.reads
          /\ last = [Op("getInode") EXCEPT !.ino = 4, !.ret = g.ret,
                        !.reads = g.reads, !.allocs = g.allocs]
    /\ failures = 0
    /\ succeeded = <<>>
    /\ processed = {}
    /\ failedIno = {}

NextOffset == GetOffset(AllBlks)

SpecOffset == InitOffset /\ [][NextOffset]_vars

(***************************************************************************)
(* File creation on a volume in use: the volume is mounted and /a/a has   *)
(* been looked up (the tree holds /, /a and /a/a, the inode cache the     *)
(* inodes 1 to 3); createFile is called for every path, interleaved with  *)
(* getInode.                                                              *)
(***************************************************************************)
InitCreate ==
    /\ pc = "mounted"
    /\ disk \in GoodImages
    /\ LET m == Constructor(disk, AllOk(LINN_GROUP_COUNT(disk.sb) + 2), NoUB)
           l == lookupFile([disk |-> disk, super |-> m.super, groups |-> m.groups,
                            sched |-> AllOk(4), ub |-> NoUB, nfail |-> 0],
                           m.inodes, m.root, m.nodes, <<"a", "a">>)
       IN /\ super = m.super
          /\ groups = m.groups
          /\ inodes = l.inodes
          /\ root = l.root
          /\ nodeAllocs = l.nodes
          /\ mountReads = m.reads
          /\ processed = l.touched
          /\ succeeded = (<<"a", "a">> :> l.ret)
          /\ last = [Op("lookupFile") EXCEPT !.path = <<"a", "a">>, !.ret = l.ret,
                        !.reads = l.reads, !.allocs = l.allocs,
                        !.nodes = l.nodes - m.nodes, !.failAt = l.failAt,
                        !.touched = l.touched, !.crash = l.crash]
    /\ failures = 0
    /\ failedIno = {}

NextCreate ==
    \/ CreateFile
    \/ GetInode(AllInodes)

SpecCreate == InitCreate /\ [][NextCreate]_vars

(***************************************************************************)
(* Claims about getOffset.                                                *)
(***************************************************************************)
ReadsOk == \A i \in 1..Len(last.reads) : last.reads[i].res = "ok"

Translated == last.op = "getOffset" /\ ~last.crash

\* canonical multi-level addressing: depth ranges of n, n^2 and the rest,
\* slot (k div n^(d-j)) mod n in the j-th indirection block
CanonDepth(blk) ==
    LET n == LINN_SUPER_NUM_PTRS(super)
        k == blk - LINN_INODE_DIR_BLOCKS
    IN IF k < n THEN 1 ELSE IF k < n + n * n THEN 2 ELSE 3

CanonBase(d) ==
    LET n == LINN_SUPER_NUM_PTRS(super)
    IN LINN_INODE_DIR_BLOCKS + (IF d >= 2 THEN n ELSE 0) + (IF d = 3 THEN n * n ELSE 0)

CanonSlot(blk, d, j) ==
    LET n == LINN_SUPER_NUM_PTRS(super)
    IN ((blk - CanonBase(d)) \div Pow(n, d - j)) % n

RECURSIVE CanonWalk(_, _, _, _)
CanonWalk(blk, d, ptr, j) ==
    IF j > d THEN ptr
    ELSE CanonWalk(blk, d,
                   ReadBlock(disk, ptr * super.blockSize)[CanonSlot(blk, d, j)],
                   j + 1)

CanonOffset(inode, blk) ==
    LET d == CanonDepth(blk)
    IN super.blockSize *
       CanonWalk(blk, d, inode.block[LINN_INODE_DIR_BLOCKS + d - 1], 1)

\* C1: for every blk beyond the direct range, with all reads succeeding,
\* getOffset returns blockSize times the pointer canonical multi-level
\* addressing reaches.
C1_Canonical ==
    (Translated /\ ReadsOk /\ last.blk >= LINN_INODE_DIR_BLOCKS)
        => last.ret = CanonOffset(InodeRecord(disk, last.ino), last.blk)

\* C9: with all reads succeeding, getOffset issues exactly one, two, three
\* indirection-block reads for blk in the single, double, triple indirect
\* range.
C9_ReadsPerRange ==
    (Translated /\ ReadsOk /\ last.blk >= LINN_INODE_DIR_BLOCKS)
        => Len(last.reads) = CanonDepth(last.blk)

\* C10: for every blk in the direct range getOffset returns
\* inode.block[blk] * blockSize and issues no storage read.
C10_Direct ==
    (last.op = "getOffset" /\ last.blk < LINN_INODE_DIR_BLOCKS)
        => /\ last.ret = InodeRecord(disk, last.ino).block[last.blk] * disk.sb.blockSize
           /\ last.reads = <<>>
           /\ ~last.crash

\* C10 witness: the last direct block of a directory inode was translated
\* to a non-zero offset.
C10_Witness ==
    /\ last.op = "getOffset"
    /\ last.blk = LINN_INODE_DIR_BLOCKS - 1
    /\ last.ino = LINN_INODE_ROOT
    /\ last.ret > 0

\* the value getOffset returns when a read of an indirection block fails
BlockUnavailable == 0

ReadErrAt(i) == i \in 1..Len(last.reads) /\ last.reads[i].res = "err"

\* C8 as stated: a failed read of an indirection block stops the translation
\* at that step, and what getOffset then returns is returned by no
\* successful translation.
C8_Distinct ==
    /\ (last.op = "getOffset" /\ \E i \in 1..Len(last.reads) : ReadErrAt(i))
           => /\ ReadErrAt(Len(last.reads))
              /\ last.ret = BlockUnavailable
    /\ (Translated /\ ReadsOk) => last.ret # BlockUnavailable

\* C8 amended: a read of an indirection block that fails with an error stops
\* the translation at that step (it is the last read issued) and getOffset
\* returns offset 0.
C8_StopsWithZero ==
    (last.op = "getOffset" /\ \E i \in 1..Len(last.reads) : ReadErrAt(i))
        => /\ ReadErrAt(Len(last.reads))
           /\ \A i \in 1..(Len(last.reads) - 1) : ~ReadErrAt(i)
           /\ last.ret = 0
           /\ ~last.crash

\* C8 witness: the second indirection read of a translation of depth two or
\* more failed.
C8_Witness ==
    /\ last.op = "getOffset"
    /\ Depth(super, last.blk) >= 2
    /\ Len(last.reads) = 2
    /\ ReadErrAt(2)
    /\ last.ret = 0

(***************************************************************************)
(* Claims about getInode and the mount.                                   *)
(***************************************************************************)
ReadFailedIn(op) == \E i \in 1..Len(op.reads) : op.reads[i].res # "ok"

\* C2: once getInode(n) has returned an inode (it is then the cached one),
\* the cached inode never changes and every later getInode(n) returns it
\* with no storage read and no allocation.
C2_CacheIdempotent ==
    [][ /\ (last'.op = "getInode" /\ last'.ret # ZERO)
            => /\ last'.ino \in DOMAIN inodes'
               /\ inodes'[last'.ino].id = last'.ret
        /\ \A n \in DOMAIN inodes :
             /\ n \in DOMAIN inodes' /\ inodes'[n] = inodes[n]
             /\ (last'.op = "getInode" /\ last'.ino = n)
                  => /\ last'.ret = inodes[n].id
                     /\ last'.reads = <<>>
                     /\ last'.allocs = 0 ]_vars

\* C2 witness: getInode(2) answered from the cache; only an earlier
\* getInode(2) can have put it there.
C2_Witness ==
    /\ last.op = "getInode"
    /\ last.ino = 2
    /\ last.ret # ZERO
    /\ last.reads = <<>>
    /\ last.allocs = 0

\* C5: when the storage read of getInode(n) fails (an error or zero bytes)
\* getInode returns not-found and the inode cache is what it was; when the
\* read succeeds, also after an earlier failure, the inode is inserted and
\* returned.
C5_FailedReadLeavesCache ==
    [][ last'.op = "getInode" =>
          /\ ReadFailedIn(last') => (last'.ret = ZERO /\ inodes' = inodes)
          /\ (last'.reads # <<>> /\ ~ReadFailedIn(last'))
               => /\ last'.ret # ZERO
                  /\ last'.ino \notin DOMAIN inodes
                  /\ DOMAIN inodes' = DOMAIN inodes \cup {last'.ino}
                  /\ inodes'[last'.ino].id = last'.ret
                  /\ \A n \in DOMAIN inodes : inodes'[n] = inodes[n] ]_vars

\* C5 witness: the read of getInode(3) failed before, and now getInode(3)
\* read the inode, inserted and returned it.
C5_Witness ==
    /\ 3 \in failedIno
    /\ last.op = "getInode"
    /\ last.ino = 3
    /\ Len(last.reads) = 1
    /\ last.reads[1].res = "ok"
    /\ last.ret # ZERO
    /\ 3 \in DOMAIN inodes
    /\ inodes[3].id = last.ret

\* C7: after a superblock read failure, a magic mismatch, a group descriptor
\* read failure or a root inode read failure the constructor never reaches
\* the mounted state.
C7_MountAborts ==
    pc = "mounted"
        => /\ MagicOk(super)
           /\ \A i \in 1..Len(mountReads) : mountReads[i].res = "ok"

(***************************************************************************)
(* Claims about lookupFile.                                               *)
(***************************************************************************)
IsPrefix(p, q) == Len(p) <= Len(q) /\ p = SubSeq(q, 1, Len(p))

\* C3: after lookupFile(p) has succeeded once, every later lookupFile(p)
\* returns the node the first returned and issues no directory-entry read
\* and no inode read.
C3_RepeatedLookup ==
    [][ \A p \in DOMAIN succeeded :
          (last'.op = "lookupFile" /\ last'.path = p)
             => /\ last'.ret = succeeded[p]
                /\ last'.reads = <<>>
                /\ last'.nodes = 0
                /\ ~last'.crash ]_vars

\* C3 witness: lookupFile of /a/a succeeded before and was looked up again,
\* without a read.
C3_Witness ==
    /\ <<"a", "a">> \in DOMAIN succeeded
    /\ last.op = "lookupFile"
    /\ last.path = <<"a", "a">>
    /\ last.reads = <<>>
    /\ last.ret = succeeded[<<"a", "a">>]

\* C4 as stated: no lookupFile reads from storage a path prefix that an
\* earlier lookupFile already read.
C4_ReadAtMostOnce ==
    [][ last'.op = "lookupFile" => last'.touched \cap processed = {} ]_vars

\* C4 amended: once a path prefix is resolved (its node is in the tree), no
\* lookupFile of the same or a longer path issues a directory-entry read or
\* an inode read for it; the lookup walks over the cached node, which stays
\* as it is.
C4_ResolvedNeverReadAgain ==
    [][ last'.op = "lookupFile" =>
          \A p \in DOMAIN root :
             /\ p \notin last'.touched
             /\ p \in DOMAIN root' /\ root'[p] = root[p]
             /\ (IsPrefix(p, last'.path) /\ p # last'.path /\ ~last'.crash
                 /\ last'.failAt = 0)
                  => Len(last'.reads) <= 2 * (Len(last'.path) - Len(p)) ]_vars

\* C4 witness: /a was read and resolved earlier; the lookup of the longer
\* /a/a read only the component a under it.
C4_Witness ==
    /\ last.op = "lookupFile"
    /\ last.path = <<"a", "a">>
    /\ last.ret # ZERO
    /\ last.touched = {<<"a", "a">>}
    /\ <<"a">> \in processed
    /\ Len(last.reads) = 2

\* C6: a lookupFile that fails at a component returns not-found and inserts
\* no node for that component or a later one; a failed read ends the
\* request; the nodes cached before are unchanged, and a later lookup under
\* them issues no read for them.
C6_FailedLookup ==
    [][ (last'.op = "lookupFile" /\ ~last'.crash) =>
          /\ ReadFailedIn(last') => last'.ret = ZERO
          /\ last'.ret = ZERO
               => /\ last'.failAt \in 1..Len(last'.path)
                  /\ \A p \in DOMAIN root' \ DOMAIN root :
                       Len(p) < last'.failAt /\ IsPrefix(p, last'.path)
          /\ \A p \in DOMAIN root :
               /\ p \in DOMAIN root' /\ root'[p] = root[p]
               /\ p \notin last'.touched ]_vars

\* C6 witness: a lookup of /a/b failed on b (read, never inserted) with /a
\* cached; the different lookup /a/a under /a then read only its own
\* component.
C6_Witness ==
    /\ <<"a", "b">> \in processed
    /\ <<"a", "b">> \notin DOMAIN root
    /\ last.op = "lookupFile"
    /\ last.path = <<"a", "a">>
    /\ last.ret # ZERO
    /\ last.touched = {<<"a", "a">>}

(***************************************************************************)
(* Claims about the indirection depth and the indices of getOffset.       *)
(***************************************************************************)
\* C11: beyond the direct range getOffset picks depth 1 for the next n block
\* indices, depth 2 for the n^2 indices after those and depth 3 beyond, n
\* being the pointers per block.
C11_DepthRanges ==
    (last.op = "getOffset" /\ last.blk >= LINN_INODE_DIR_BLOCKS
     /\ ReadsOk /\ ~last.crash)
        => /\ Depth(super, last.blk) = CanonDepth(last.blk)
           /\ Len(last.idxs) = CanonDepth(last.blk) + 1

\* C18: every index at which getOffset reads the temporary pointer block,
\* in the loop and after it, lies in 0 .. pointers per block - 1.
C18_IndicesInBlock ==
    last.op = "getOffset"
        => \A i \in 1..Len(last.idxs) :
              last.idxs[i] \in 0..(LINN_SUPER_NUM_PTRS(super) - 1)

(***************************************************************************)
(* Claims about the range check of getInode and the magic check of the    *)
(* mount.                                                                 *)
(***************************************************************************)
\* C12: for every n >= inodesCount, getInode(n) returns not-found, issues no
\* storage read, allocates nothing and leaves the inode cache unchanged.
C12_OutOfRange ==
    [][ (last'.op = "getInode" /\ last'.ino >= super.inodesCount)
          => /\ last'.ret = ZERO
             /\ last'.reads = <<>>
             /\ last'.allocs = 0
             /\ ~last'.crash
             /\ inodes' = inodes ]_vars

\* C12 witness: getInode(inodesCount) was rejected on a volume whose cache
\* holds the root inode.
C12_Witness ==
    /\ pc = "mounted"
    /\ last.op = "getInode"
    /\ last.ino = super.inodesCount
    /\ last.ret = ZERO
    /\ last.reads = <<>>
    /\ LINN_INODE_ROOT \in DOMAIN inodes

MagicMismatch(sb) ==
    sb.magic0 # LINN_SUPER_MAGIC0 \/ sb.magic1 # LINN_SUPER_MAGIC1

\* C14: when the magic fields of the superblock on disk do not both match,
\* the mount ends in exit right after the superblock read: the only read
\* ever issued is that of the superblock, and no group descriptor and no
\* inode is loaded.
C14_MagicMismatch ==
    (MagicMismatch(disk.sb) /\ pc # "boot")
        => /\ pc = "exited"
           /\ Len(mountReads) = 1
           /\ mountReads[1].kind = "super"
           /\ groups = <<>>
           /\ inodes = <<>>
           /\ root = <<>>
           /\ last.op = "mount"
           /\ last.reads = mountReads

\* C14 witness: the superblock was read successfully, its second magic field
\* was wrong, and the mount exited.
C14_Witness ==
    /\ pc = "exited"
    /\ Len(mountReads) = 1
    /\ mountReads[1].res = "ok"
    /\ super.magic0 = LINN_SUPER_MAGIC0
    /\ super.magic1 # LINN_SUPER_MAGIC1

(***************************************************************************)
(* Claims about the walk of lookupFile.                                   *)
(***************************************************************************)
Prefix(q, j) == SubSeq(q, 1, j)

\* C13: when a component before the last of the looked-up path resolves to
\* a regular file, lookupFile fails at the component after it: it returns
\* not-found, and for that component and every later one it issues no
\* directory-entry read and no inode read and inserts no node.
C13_NonDirectory ==
    [][ (last'.op = "lookupFile" /\ ~last'.crash) =>
          \A i \in 2..Len(last'.path) :
             (/\ Prefix(last'.path, i - 1) \in DOMAIN root'
              /\ root'[Prefix(last'.path, i - 1)].type = RegularFile)
               => /\ last'.ret = ZERO
                  /\ last'.failAt = i
                  /\ \A q \in last'.touched \cup (DOMAIN root' \ DOMAIN root) :
                       Len(q) < i
                  /\ Len(last'.reads) <= 2 * (i - 1) ]_vars

\* C13 witness: the lookup of /a/a/b resolved the regular file /a/a in the
\* same request (reading it) and failed at b.
C13_Witness ==
    /\ last.op = "lookupFile"
    /\ last.path = <<"a", "a", "b">>
    /\ last.ret = ZERO
    /\ last.failAt = 3
    /\ <<"a", "a">> \in last.touched
    /\ root[<<"a", "a">>].type = RegularFile

\* C15: on a mounted volume lookupFile of the root path (no components)
\* returns the root node created at mount, issues no storage read and
\* changes neither the inode cache nor the file cache tree.
C15_RootLookup ==
    [][ (last'.op = "lookupFile" /\ last'.path = slash)
          => /\ last'.ret # ZERO
             /\ last'.ret = root[slash].id
             /\ root[slash].id = 1
             /\ last'.reads = <<>>
             /\ last'.allocs = 0
             /\ last'.nodes = 0
             /\ ~last'.crash
             /\ inodes' = inodes
             /\ root' = root ]_vars

\* C15 witness: the root path was looked up after other paths had been
\* resolved and inserted.
C15_Witness ==
    /\ last.op = "lookupFile"
    /\ last.path = slash
    /\ last.ret = 1
    /\ <<"a", "a">> \in DOMAIN root

\* the prefixes of its path the last lookupFile resolved
ResolvedBy(op) ==
    { Prefix(op.path, j) :
        j \in 1..(IF op.failAt = 0 THEN Len(op.path) ELSE op.failAt - 1) }

\* C17: the mount leaves a tree that holds the root node only; a lookupFile
\* adds to the tree exactly the prefixes of its path it resolved and that
\* were not there, each as the child, under the component's name, of the
\* node of the prefix before it; no other operation changes the tree and no
\* node is ever removed or replaced.
C17_TreeIsResolved ==
    [][ /\ last'.op = "mount" => (pc' = "mounted" <=> DOMAIN root' = {slash})
        /\ (last'.op = "lookupFile" /\ ~last'.crash)
             => /\ DOMAIN root' = DOMAIN root \cup ResolvedBy(last')
                /\ \A p \in DOMAIN root' \ DOMAIN root :
                     /\ Prefix(p, Len(p) - 1) \in DOMAIN root'
                     /\ root'[p].type \in {DirectoryFile, RegularFile}
                     /\ \A q \in DOMAIN root : root[q].id # root'[p].id
        /\ last'.op \notin {"mount", "lookupFile"} => root' = root
        /\ \A p \in DOMAIN root : p \in DOMAIN root' /\ root'[p] = root[p] ]_vars

\* C17 witness: a lookup of /a/a/a failed at its last component after it
\* had resolved and inserted /a and /a/a.
C17_Witness ==
    /\ last.op = "lookupFile"
    /\ last.path = <<"a", "a", "a">>
    /\ last.ret = ZERO
    /\ last.nodes = 2
    /\ DOMAIN root = {slash, <<"a">>, <<"a", "a">>}

(***************************************************************************)
(* Claims about createFile.                                               *)
(***************************************************************************)
\* C16: createFile returns ENOTSUP for every path, issues no storage read
\* and leaves the inode cache and the file cache tree as they were.
C16_CreateNotSupported ==
    [][ last'.op = "createFile"
          => /\ last'.ret = ENOTSUP
             /\ last'.reads = <<>>
             /\ last'.allocs = 0
             /\ last'.nodes = 0
             /\ inodes' = inodes
             /\ root' = root
             /\ pc' = pc ]_vars

\* C16 witness: createFile was refused for a path that does not exist on the
\* volume, with nodes cached in the tree.
C16_Witness ==
    /\ last.op = "createFile"
    /\ last.path = <<"b", "b">>
    /\ last.ret = ENOTSUP
    /\ <<"a", "a">> \in DOMAIN root
    /\ LINN_INODE_ROOT + 3 \in failedIno

(***************************************************************************)
(* Claims about the addressing of inodes on disk.                         *)
(***************************************************************************)
\* C19: for every inode number that passes the range check of getInode,
\* 0 included, the group index getGroupByInode computes is less than the
\* number of group descriptors loaded at mount.
C19_GroupInRange ==
    (last.op = "getInode" /\ InodeValid(super, last.ino))
        => /\ Len(groups) = LINN_GROUP_COUNT(super)
           /\ GroupIndex(super, last.ino) < Len(groups)

\* the first byte getInode reads for a cached inode number
InodeAt(n) == InodeOffset(super, getGroupByInode(super, groups, n, NoUB), n)

\* C20: the byte ranges getInode read for two distinct cached inode numbers,
\* each of the size of an inode record, do not overlap.
C20_RecordsDisjoint ==
    \A a, b \in DOMAIN inodes :
        (/\ a # b
         /\ GroupIndex(super, a) < Len(groups)
         /\ GroupIndex(super, b) < Len(groups))
            => \/ InodeAt(a) + LinnInodeSize <= InodeAt(b)
               \/ InodeAt(b) + LinnInodeSize <= InodeAt(a)

====
